---- MODULE Spec2Model ----
(***************************************************************************)
(* A model of quantum.py: the class Psi (a state vector of 2^n_qubits      *)
(* complex amplitudes), its three gates, collapse(), and the __main__      *)
(* driver.                                                                 *)
(*                                                                         *)
(* Complex numbers are exact.  Every amplitude the gates can produce from  *)
(* the initial vector lies in the ring Z[z][1/2], z = exp(i*pi/8), a       *)
(* primitive 16th root of unity with z^8 = -1, because                     *)
(*     exp(+-1j*pi/8) = z, z^-1 = -z^7     and    sqrt(2) = z^2 - z^6.     *)
(* A number is [num |-> <<c0..c7>>, den |-> k], standing for               *)
(* (c0 + c1 z + ... + c7 z^7) / 2^k, kept in lowest terms so that equal    *)
(* numbers are equal records.  Floating-point rounding is not modelled.    *)
(***************************************************************************)
EXTENDS Integers, Sequences, FiniteSets, TLC

\* Bounds of the model.
MaxQubits == 2
MaxCalls == 3

---------------------------------------------------------------------------
\* Exact complex arithmetic (cmath / the * - / operators of Python's complex)

Coeffs == 1..8

Complex(c0, c1, c2, c3, c4, c5, c6, c7, k) ==
    [num |-> <<c0, c1, c2, c3, c4, c5, c6, c7>>, den |-> k]

RECURSIVE Pow2(_)
Pow2(e) == IF e = 0 THEN 1 ELSE 2 * Pow2(e - 1)

RECURSIVE Reduce(_)
Reduce(x) ==
    IF x.den > 0 /\ \A j \in Coeffs : x.num[j] % 2 = 0
    THEN Reduce([num |-> [j \in Coeffs |-> x.num[j] \div 2], den |-> x.den - 1])
    ELSE x

Zero == Complex(0, 0, 0, 0, 0, 0, 0, 0, 0)
One == Complex(1, 0, 0, 0, 0, 0, 0, 0, 0)
\* exp(1j * pi / 8) and exp(-1j * pi / 8)
ExpPos == Complex(0, 1, 0, 0, 0, 0, 0, 0, 0)
ExpNeg == Complex(0, 0, 0, 0, 0, 0, 0, -1, 0)
\* sqrt(2)
Sqrt2 == Complex(0, 0, 1, 0, 0, 0, -1, 0, 0)

Max(a, b) == IF a >= b THEN a ELSE b

\* the numerator of x over the denominator 2^k, k >= x.den
Lift(x, k) ==
    LET m == Pow2(k - x.den)
    IN [j \in Coeffs |-> x.num[j] * m]

Add(x, y) ==
    LET k == Max(x.den, y.den)
        a == Lift(x, k)
        b == Lift(y, k)
    IN Reduce([num |-> [j \in Coeffs |-> a[j] + b[j]], den |-> k])

Sub(x, y) ==
    LET k == Max(x.den, y.den)
        a == Lift(x, k)
        b == Lift(y, k)
    IN Reduce([num |-> [j \in Coeffs |-> a[j] - b[j]], den |-> k])

RECURSIVE MulCoeff(_, _, _, _)
\* coefficient of z^j in x*y, summing the terms x_a * y_b with a >= from:
\* a + b = j counts positively, a + b = j + 8 negatively (z^8 = -1)
MulCoeff(x, y, j, from) ==
    IF from > 7 THEN 0
    ELSE (IF from <= j
          THEN x.num[from + 1] * y.num[j - from + 1]
          ELSE 0 - x.num[from + 1] * y.num[j + 8 - from + 1])
         + MulCoeff(x, y, j, from + 1)

\* x * y; a product with 0 is 0
Mul(x, y) ==
    IF x = Zero \/ y = Zero THEN Zero
    ELSE Reduce([num |-> [j \in Coeffs |-> MulCoeff(x, y, j - 1, 0)],
                 den |-> x.den + y.den])

\* x / sqrt(2) = x * sqrt(2) / 2
DivSqrt2(x) == Mul(x, [num |-> Sqrt2.num, den |-> 1])

\* the complex conjugate: conj(z^j) = z^-j = -z^(8-j)
Conj(x) ==
    [num |-> [j \in Coeffs |-> IF j = 1 THEN x.num[1] ELSE 0 - x.num[10 - j]],
     den |-> x.den]

\* abs(amp) ** 2
AbsSq(x) == Mul(x, Conj(x))

Sgn(m) == IF m > 0 THEN 1 ELSE IF m < 0 THEN -1 ELSE 0

\* the sign of p + q*sqrt(2)
Sgn2(p, q) ==
    IF Sgn(p) = Sgn(q) \/ q = 0 THEN Sgn(p)
    ELSE IF p = 0 THEN Sgn(q)
    ELSE Sgn(p) * Sgn(p * p - 2 * q * q)

\* The sign of a real number x.  A real number has the numerator
\*   r0 + r1 (z + z^-1) + r2 (z^2 + z^-2) + r3 (z^3 + z^-3)
\* with z^2 + z^-2 = sqrt(2), z + z^-1 = a = sqrt(2 + sqrt(2)) and
\* z^3 + z^-3 = a (sqrt(2) - 1): it is X + a Y with X = r0 + r2 sqrt(2) and
\* Y = (r1 - r3) + r3 sqrt(2), and a^2 = 2 + sqrt(2).
Sign(x) ==
    LET p == x.num[1]
        q == x.num[3]
        u == x.num[2] - x.num[4]
        v == x.num[4]
        sx == Sgn2(p, q)
        sy == Sgn2(u, v)
        A == u * u + 2 * v * v
        B == 2 * u * v
    IN IF sy = 0 \/ sx = sy THEN sx
       ELSE IF sx = 0 THEN sy
       ELSE sx * Sgn2(p * p + 2 * q * q - (2 * A + 2 * B),
                      2 * p * q - (A + 2 * B))

Less(x, y) == Sign(Sub(x, y)) < 0

---------------------------------------------------------------------------
\* Integer helpers (the >> % ^ << operators on Python ints)
\* A shift by a negative count raises ValueError; the loops below test for
\* it where they shift, and Bit and Pow2 are only used with counts >= 0.

\* (i >> b) % 2
Bit(i, b) == (i \div Pow2(b)) % 2

RECURSIVE Xor(_, _)
\* a ^ b
Xor(a, b) ==
    IF a = 0 /\ b = 0 THEN 0
    ELSE (((a % 2) + (b % 2)) % 2) + 2 * Xor(a \div 2, b \div 2)

---------------------------------------------------------------------------
\* class Psi

\* [0] * (1 << n_qubits), a list indexed 0 .. 2^n_qubits - 1
Zeros(n) == [i \in 0..(Pow2(n) - 1) |-> Zero]

\* the list with a 1 at index i: the state after __init__ (i = 0) and
\* after a collapse to i
Basis(n, i) == [Zeros(n) EXCEPT ![i] = One]

Psi(n) == Basis(n, 0)

\* what a call leaves behind: the list self.amplitudes, how the call ended,
\* and what it returned.  None is <<>>, a returned tuple t is <<t>>.
None == <<>>
Done(amps, how, ret) == [amplitudes |-> amps, outcome |-> how, result |-> ret]

RECURSIVE PiLoopSwapped(_, _, _, _)
\* PiLoop with the two phases exchanged
PiLoopSwapped(amps, n, qubit, i) ==
    IF i = Pow2(n) THEN Done(amps, "ok", None)
    ELSE IF qubit < 0 THEN Done(amps, "ValueError", None)
    ELSE PiLoopSwapped([amps EXCEPT ![i] = IF Bit(i, qubit) = 0
                                           THEN Mul(@, ExpPos)
                                           ELSE Mul(@, ExpNeg)],
                       n, qubit, i + 1)

RECURSIVE PiLoop(_, _, _, _)
PiLoop(amps, n, qubit, i) ==
    IF i = Pow2(n) THEN Done(amps, "ok", None)
    ELSE IF qubit < 0 THEN Done(amps, "ValueError", None)
    ELSE PiLoop([amps EXCEPT ![i] = IF Bit(i, qubit) = 0
                                    THEN Mul(@, ExpNeg)
                                    ELSE Mul(@, ExpPos)],
                n, qubit, i + 1)

pi_over_eight(amps, n, qubit) ==
    IF qubit > n THEN Done(amps, "ValueError", None)
    ELSE PiLoop(amps, n, qubit, 0)

RECURSIVE CnotLoopLive(_, _, _, _, _, _)
\* CnotLoop without the copy: it reads the list it is storing into
CnotLoopLive(amps, old_amps, n, qubit1, qubit2, i) ==
    IF i = Pow2(n) THEN Done(amps, "ok", None)
    ELSE IF qubit1 < 0 \/ qubit2 < 0 THEN Done(amps, "ValueError", None)
    ELSE LET dest == Xor(i, Bit(i, qubit1) * Pow2(qubit2))
         IN IF dest \notin DOMAIN amps THEN Done(amps, "IndexError", None)
            ELSE CnotLoopLive([amps EXCEPT ![dest] = amps[i]],
                              old_amps, n, qubit1, qubit2, i + 1)

RECURSIVE CnotLoop(_, _, _, _, _, _)
\* the loop of controlled_not from index i on; a store to an index the list
\* does not have raises IndexError and leaves the stores made so far
CnotLoop(amps, old_amps, n, qubit1, qubit2, i) ==
    IF i = Pow2(n) THEN Done(amps, "ok", None)
    ELSE IF qubit1 < 0 \/ qubit2 < 0 THEN Done(amps, "ValueError", None)
    ELSE LET dest == Xor(i, Bit(i, qubit1) * Pow2(qubit2))
         IN IF dest \notin DOMAIN amps THEN Done(amps, "IndexError", None)
            ELSE CnotLoop([amps EXCEPT ![dest] = old_amps[i]],
                          old_amps, n, qubit1, qubit2, i + 1)

\* controlled_not with the roles of its two arguments exchanged
controlled_not_swapped(amps, n, qubit1, qubit2) ==
    IF qubit1 > n \/ qubit2 > n \/ qubit1 = qubit2
    THEN Done(amps, "ValueError", None)
    ELSE CnotLoop(amps, amps, n, qubit2, qubit1, 0)

\* controlled_not storing into a fresh list of zeros instead of the old one
controlled_not_fresh(amps, n, qubit1, qubit2) ==
    IF qubit1 > n \/ qubit2 > n \/ qubit1 = qubit2
    THEN Done(amps, "ValueError", None)
    ELSE CnotLoop(Zeros(n), amps, n, qubit1, qubit2, 0)

controlled_not(amps, n, qubit1, qubit2) ==
    IF qubit1 > n \/ qubit2 > n \/ qubit1 = qubit2
    THEN Done(amps, "ValueError", None)
    ELSE CnotLoop(amps, amps, n, qubit1, qubit2, 0)

RECURSIVE HadamardLoopLive(_, _, _, _, _)
\* HadamardLoop without the copy: it reads the list it is storing into
HadamardLoopLive(amps, old_amps, n, qubit, i) ==
    IF i = Pow2(n) THEN Done(amps, "ok", None)
    ELSE IF qubit < 0 THEN Done(amps, "ValueError", None)
    ELSE IF Bit(i, qubit) = 0
    THEN IF i + Pow2(qubit) \notin DOMAIN amps
         THEN Done(amps, "IndexError", None)
         ELSE HadamardLoopLive(
                [amps EXCEPT ![i] =
                    DivSqrt2(Sub(amps[i], amps[i + Pow2(qubit)]))],
                old_amps, n, qubit, i + 1)
    ELSE HadamardLoopLive(
                [amps EXCEPT ![i] =
                    DivSqrt2(Sub(amps[i - Pow2(qubit)], amps[i]))],
                old_amps, n, qubit, i + 1)

RECURSIVE HadamardLoopSwapped(_, _, _, _, _)
\* HadamardLoop with the operands of the "one" branch exchanged
HadamardLoopSwapped(amps, old_amps, n, qubit, i) ==
    IF i = Pow2(n) THEN Done(amps, "ok", None)
    ELSE IF qubit < 0 THEN Done(amps, "ValueError", None)
    ELSE IF Bit(i, qubit) = 0
    THEN IF i + Pow2(qubit) \notin DOMAIN old_amps
         THEN Done(amps, "IndexError", None)
         ELSE HadamardLoopSwapped(
                [amps EXCEPT ![i] =
                    DivSqrt2(Sub(old_amps[i], old_amps[i + Pow2(qubit)]))],
                old_amps, n, qubit, i + 1)
    ELSE HadamardLoopSwapped(
                [amps EXCEPT ![i] =
                    DivSqrt2(Sub(old_amps[i], old_amps[i - Pow2(qubit)]))],
                old_amps, n, qubit, i + 1)

RECURSIVE HadamardLoop(_, _, _, _, _)
\* the loop of hadamard from index i on; a read of an index old_amplitudes
\* does not have raises IndexError
HadamardLoop(amps, old_amps, n, qubit, i) ==
    IF i = Pow2(n) THEN Done(amps, "ok", None)
    ELSE IF qubit < 0 THEN Done(amps, "ValueError", None)
    ELSE IF Bit(i, qubit) = 0
    THEN IF i + Pow2(qubit) \notin DOMAIN old_amps
         THEN Done(amps, "IndexError", None)
         ELSE HadamardLoop(
                [amps EXCEPT ![i] =
                    DivSqrt2(Sub(old_amps[i], old_amps[i + Pow2(qubit)]))],
                old_amps, n, qubit, i + 1)
    ELSE HadamardLoop(
                [amps EXCEPT ![i] =
                    DivSqrt2(Sub(old_amps[i - Pow2(qubit)], old_amps[i]))],
                old_amps, n, qubit, i + 1)

hadamard(amps, n, qubit) ==
    IF qubit > n THEN Done(amps, "ValueError", None)
    ELSE HadamardLoop(amps, amps, n, qubit, 0)

\* weights = [abs(amp) ** 2 for amp in self.amplitudes]
Weights(amps) == [i \in DOMAIN amps |-> AbsSq(amps[i])]

RECURSIVE Cumulative(_, _)
\* w[0] + ... + w[i-1], added from the left as sum() does
Cumulative(w, i) == IF i = 0 THEN Zero ELSE Add(Cumulative(w, i - 1), w[i - 1])

\* sum(weights)
Total(amps) == Cumulative(Weights(amps), Cardinality(DOMAIN amps))

Half == Complex(1, 0, 0, 0, 0, 0, 0, 0, 1)

\* The values random() * sum(weights) is drawn from.  random() is in [0, 1),
\* so the product is 0 when the sum is 0 and is in [0, sum) otherwise.  The
\* points drawn are, for every index i, the cumulative weight below i and the
\* midpoint between it and the cumulative weight through i.
Draws(amps) ==
    LET w == Weights(amps)
        total == Cumulative(w, Cardinality(DOMAIN amps))
        points == UNION {{Cumulative(w, i), Add(Cumulative(w, i), Mul(Half, w[i]))}
                         : i \in DOMAIN w}
    IN IF total = Zero THEN {Zero}
       ELSE {r \in points : Sign(r) >= 0 /\ Less(r, total)}

\* tuple((i >> bit) % 2 for bit in range(n_qubits))
Bits(n, i) == [b \in 1..n |-> Bit(i, b - 1)]

RECURSIVE CollapseLoopLe(_, _, _, _, _)
\* CollapseLoop testing choice <= 0
CollapseLoopLe(amps, w, n, choice, i) ==
    IF i \notin DOMAIN w THEN Done(amps, "ok", None)
    ELSE LET rest == Sub(choice, w[i])
         IN IF Sign(rest) <= 0
            THEN Done(Basis(n, i), "ok", <<Bits(n, i)>>)
            ELSE CollapseLoopLe(amps, w, n, rest, i + 1)

RECURSIVE CollapseLoop(_, _, _, _, _)
\* the loop of collapse from index i on, with the running remainder choice;
\* falling off the end of the loop returns None and stores nothing
CollapseLoop(amps, w, n, choice, i) ==
    IF i \notin DOMAIN w THEN Done(amps, "ok", None)
    ELSE LET rest == Sub(choice, w[i])
         IN IF Sign(rest) < 0
            THEN Done(Basis(n, i), "ok", <<Bits(n, i)>>)
            ELSE CollapseLoop(amps, w, n, rest, i + 1)

\* collapse() when random() * sum(weights) is r
collapse(amps, n, r) == CollapseLoop(amps, Weights(amps), n, r, 0)

---------------------------------------------------------------------------
\* The state: a Psi object, the call made on it last, and the position of
\* the __main__ script (pc = 0: the object is used by some other caller).

VARIABLES n_qubits, amplitudes, old_amplitudes, call, choice, outcome,
          result, ncalls, pc, history

vars == <<n_qubits, amplitudes, old_amplitudes, call, choice, outcome,
          result, ncalls, pc, history>>

Gates == {"pi_over_eight", "controlled_not", "hadamard"}

\* a gate call whose qubit arguments are indices in [0, n) and, for
\* controlled_not, different
ValidGate(n, op, args) ==
    /\ op \in Gates
    /\ \A k \in DOMAIN args : args[k] >= 0 /\ args[k] < n
    /\ op = "controlled_not" => args[1] # args[2]

\* The calls made so far: "gates" when all of them were gate calls with
\* valid arguments that returned, "measured" when such calls were followed
\* by one collapse(), "other" otherwise.
After(h, n, op, args, how) ==
    IF ValidGate(n, op, args) /\ how = "ok" /\ h = "gates" THEN "gates"
    ELSE IF op = "collapse" /\ h = "gates" THEN "measured"
    ELSE "other"

\* qubit arguments: a negative one, the valid indices, the boundary
\* n_qubits, and one beyond it
Qubits == -1..(n_qubits + 1)

Init ==
    /\ \/ n_qubits \in 1..MaxQubits /\ pc = 0
       \/ n_qubits = 3 /\ pc = 91
    /\ amplitudes = Psi(n_qubits)
    /\ old_amplitudes = amplitudes
    /\ call = [op |-> "__init__", args |-> <<n_qubits>>]
    /\ choice = Zero
    /\ outcome = "ok"
    /\ result = None
    /\ ncalls = 0
    /\ history = "gates"

\* a call op(args) that ended as res, made with random() * sum(weights) = r
Called(op, args, r, res) ==
    /\ call' = [op |-> op, args |-> args]
    /\ choice' = r
    /\ old_amplitudes' = amplitudes
    /\ amplitudes' = res.amplitudes
    /\ outcome' = res.outcome
    /\ result' = res.result
    /\ ncalls' = ncalls + 1
    /\ history' = After(history, n_qubits, op, args, res.outcome)
    /\ UNCHANGED n_qubits

CallPiOverEight ==
    /\ pc = 0 /\ ncalls < MaxCalls
    /\ \E qubit \in Qubits :
         Called("pi_over_eight", <<qubit>>, Zero,
                pi_over_eight(amplitudes, n_qubits, qubit))
    /\ UNCHANGED pc

CallControlledNot ==
    /\ pc = 0 /\ ncalls < MaxCalls
    /\ \E qubit1 \in Qubits, qubit2 \in Qubits :
         Called("controlled_not", <<qubit1, qubit2>>, Zero,
                controlled_not(amplitudes, n_qubits, qubit1, qubit2))
    /\ UNCHANGED pc

CallHadamard ==
    /\ pc = 0 /\ ncalls < MaxCalls
    /\ \E qubit \in Qubits :
         Called("hadamard", <<qubit>>, Zero,
                hadamard(amplitudes, n_qubits, qubit))
    /\ UNCHANGED pc

CallCollapse ==
    /\ pc = 0 /\ ncalls < MaxCalls
    /\ \E r \in Draws(amplitudes) :
         Called("collapse", <<>>, r, collapse(amplitudes, n_qubits, r))
    /\ UNCHANGED pc

\* __main__: psi = Psi(3) has run; pc is the line of the next statement
Main91 ==
    /\ pc = 91
    /\ Called("hadamard", <<1>>, Zero, hadamard(amplitudes, n_qubits, 1))
    /\ pc' = 93

Main93 ==
    /\ pc = 93
    /\ Called("hadamard", <<2>>, Zero, hadamard(amplitudes, n_qubits, 2))
    /\ pc' = 95

Main95 ==
    /\ pc = 95
    /\ Called("pi_over_eight", <<1>>, Zero,
              pi_over_eight(amplitudes, n_qubits, 1))
    /\ pc' = 97

Main97 ==
    /\ pc = 97
    /\ Called("controlled_not", <<1, 0>>, Zero,
              controlled_not(amplitudes, n_qubits, 1, 0))
    /\ pc' = 100

Main100 ==
    /\ pc = 100
    /\ \E r \in Draws(amplitudes) :
         Called("collapse", <<>>, r, collapse(amplitudes, n_qubits, r))
    /\ pc' = 101

Next ==
    \/ CallPiOverEight
    \/ CallControlledNot
    \/ CallHadamard
    \/ CallCollapse
    \/ Main91
    \/ Main93
    \/ Main95
    \/ Main97
    \/ Main100

Spec == Init /\ [][Next]_vars

---------------------------------------------------------------------------
\* Vocabulary of the properties

Indices == DOMAIN amplitudes

\* the qubit arguments of the last call
Arg(k) == call.args[k]

\* the index a tuple of bits encodes, qubit 0 first
RECURSIVE Encode(_, _)
Encode(t, b) == IF b > Len(t) THEN 0 ELSE t[b] * Pow2(b - 1) + Encode(t, b + 1)

\* index i with the bit of qubit t negated when the bit of qubit c is 1
Flip(i, c, t) ==
    IF (i \div Pow2(c)) % 2 = 0 THEN i
    ELSE IF (i \div Pow2(t)) % 2 = 0 THEN i + Pow2(t) ELSE i - Pow2(t)

Quarter == Complex(1, 0, 0, 0, 0, 0, 0, 0, 2)
MinusOne == Complex(-1, 0, 0, 0, 0, 0, 0, 0, 0)

\* the indices of the non-zero amplitudes
Support(amps) == {i \in DOMAIN amps : amps[i] # Zero}

\* the indices collapse() can select in the state amps
Outcomes(amps, n) ==
    LET returned == {collapse(amps, n, r).result : r \in Draws(amps)}
    IN {Encode(t[1], 1) : t \in returned \ {None}}

---------------------------------------------------------------------------
\* C1: after every call of a sequence of successful gate calls with valid
\* qubit indices on a fresh register, the squared magnitudes of the
\* amplitudes sum to 1.  (Stated as written; the code violates it.)
C1_Normalized == history = "gates" => Total(amplitudes) = One

\* C2: when collapse() returns in a state reached by gate calls, exactly one
\* amplitude is 1, all others are 0, and the returned tuple has n_qubits
\* bits that encode the index of the surviving amplitude.  (Stated as
\* written; the code violates it.)
C2_CollapsePost ==
    history = "measured" =>
        /\ Len(result) = 1
        /\ Len(result[1]) = n_qubits
        /\ \E k \in Indices :
              /\ amplitudes[k] = One
              /\ \A i \in Indices \ {k} : amplitudes[i] = Zero
              /\ \A b \in 0..(n_qubits - 1) : result[1][b + 1] = (k \div Pow2(b)) % 2

\* C3: a gate call with a qubit argument >= n_qubits, the boundary index
\* n_qubits included, fails with ValueError.  (Stated as written; the code
\* violates it.)
C3_RangeValidation ==
    (call.op \in Gates /\ \E k \in DOMAIN call.args : Arg(k) >= n_qubits)
        => outcome = "ValueError"

\* C4: controlled_not(c, t) with valid, different c and t returns, moves the
\* amplitude of every index i to the index Flip(i, c, t), which is a
\* bijection on the indices, and so keeps the multiset of amplitudes.
C4_CnotPermutation ==
    (call.op = "controlled_not" /\ ValidGate(n_qubits, call.op, call.args)) =>
        /\ outcome = "ok"
        /\ \A i \in Indices :
              amplitudes[Flip(i, Arg(1), Arg(2))] = old_amplitudes[i]
        /\ {Flip(i, Arg(1), Arg(2)) : i \in Indices} = Indices
        /\ \A i, j \in Indices :
              Flip(i, Arg(1), Arg(2)) = Flip(j, Arg(1), Arg(2)) => i = j
        /\ \A i \in Indices :
              Cardinality({j \in Indices : amplitudes[j] = old_amplitudes[i]})
                = Cardinality({j \in Indices : old_amplitudes[j] = old_amplitudes[i]})

\* the example of C4: two qubits, amplitude 1 at index 2, control 1, target 0
C4_Witness ==
    /\ n_qubits = 2
    /\ call = [op |-> "controlled_not", args |-> <<1, 0>>]
    /\ outcome = "ok"
    /\ old_amplitudes = Basis(2, 2)
    /\ amplitudes[3] = One
    /\ \A i \in {0, 1, 2} : amplitudes[i] = Zero

\* a fresh one-qubit register on which hadamard(0) was the first call
HadamardOnFresh ==
    /\ n_qubits = 1
    /\ ncalls = 1
    /\ call = [op |-> "hadamard", args |-> <<0>>]
    /\ old_amplitudes[0] = One
    /\ old_amplitudes[1] = Zero

\* C5 as written: hadamard(0) on a fresh one-qubit register yields
\* [1/sqrt(2), -1/sqrt(2)].
C5_HadamardOnZero_Original ==
    HadamardOnFresh =>
        /\ Mul(amplitudes[0], Sqrt2) = One
        /\ Mul(amplitudes[1], Sqrt2) = MinusOne

\* C5, amended: hadamard(0) on a fresh one-qubit register yields
\* [1/sqrt(2), 1/sqrt(2)]: equal magnitudes and the same sign.
C5_HadamardOnZero ==
    HadamardOnFresh =>
        /\ outcome = "ok"
        /\ Mul(amplitudes[0], Sqrt2) = One
        /\ Mul(amplitudes[1], Sqrt2) = One

C5_Witness == HadamardOnFresh /\ outcome = "ok" /\ amplitudes[1] # Zero

\* C6: pi_over_eight(q) with a valid q returns, multiplies amplitudes[i] by
\* exp(-i pi/8) where bit q of i is 0 and by exp(+i pi/8) where it is 1, and
\* changes no magnitude.
C6_PiOverEightPhaseOnly ==
    (call.op = "pi_over_eight" /\ ValidGate(n_qubits, call.op, call.args)) =>
        /\ outcome = "ok"
        /\ DOMAIN amplitudes = DOMAIN old_amplitudes
        /\ \A i \in Indices :
              /\ (i \div Pow2(Arg(1))) % 2 = 0 =>
                    /\ amplitudes[i] = Mul(old_amplitudes[i], ExpNeg)
                    /\ Mul(amplitudes[i], ExpPos) = old_amplitudes[i]
              /\ (i \div Pow2(Arg(1))) % 2 = 1 =>
                    /\ amplitudes[i] = Mul(old_amplitudes[i], ExpPos)
                    /\ Mul(amplitudes[i], ExpNeg) = old_amplitudes[i]
              /\ AbsSq(amplitudes[i]) = AbsSq(old_amplitudes[i])

\* pi_over_eight acted on a vector with amplitude on both values of the qubit
C6_Witness ==
    /\ call.op = "pi_over_eight" /\ ValidGate(n_qubits, call.op, call.args)
    /\ outcome = "ok"
    /\ \E i, j \in Indices :
          /\ (i \div Pow2(Arg(1))) % 2 = 0 /\ old_amplitudes[i] # Zero
          /\ (j \div Pow2(Arg(1))) % 2 = 1 /\ old_amplitudes[j] # Zero
          /\ amplitudes[i] # old_amplitudes[i]
          /\ amplitudes[j] # old_amplitudes[j]

\* C7: in __main__, before line 100 the vector is
\* [z^-1/2, 0, 0, z/2, z^-1/2, 0, 0, z/2]: non-zero, with magnitude 1/2, at
\* exactly the indices 0, 3, 4, 7, each of which collapse() can select; after
\* line 100 the printed tuple encodes one of these indices, so its bits for
\* qubit 0 and qubit 1 are equal.
C7_Demo ==
    /\ pc = 100 =>
          /\ n_qubits = 3
          /\ Support(amplitudes) = {0, 3, 4, 7}
          /\ \A i \in {0, 3, 4, 7} : AbsSq(amplitudes[i]) = Quarter
          /\ \A i \in {0, 4} : amplitudes[i] = Mul(Half, ExpNeg)
          /\ \A i \in {3, 7} : amplitudes[i] = Mul(Half, ExpPos)
          /\ Outcomes(amplitudes, n_qubits) = {0, 3, 4, 7}
    /\ pc = 101 =>
          /\ Len(result) = 1
          /\ Len(result[1]) = 3
          /\ Encode(result[1], 1) \in {0, 3, 4, 7}
          /\ old_amplitudes[Encode(result[1], 1)] # Zero
          /\ result[1][1] = result[1][2]

C7_Witness == pc = 101 /\ result = << <<1, 1, 1>> >> /\ amplitudes[7] = One

C9_CollapseSupport ==
    (call.op = "collapse" /\ Total(old_amplitudes) # Zero) =>
        /\ Len(result) = 1
        /\ \A w \in {Weights(old_amplitudes)} :
              LET k == Encode(result[1], 1)
              IN /\ k \in Indices
                 /\ amplitudes[k] = One
                 /\ w[k] # Zero
                 /\ Less(choice, Cumulative(w, k + 1))
                 /\ \A j \in 0..(k - 1) : ~Less(choice, Cumulative(w, j + 1))
        /\ \A selected \in {Outcomes(old_amplitudes, n_qubits)} :
              \A k \in Indices : old_amplitudes[k] # Zero => k \in selected

\* collapse() passed over an index of non-zero weight and selected a later one
C9_Witness ==
    /\ call.op = "collapse"
    /\ choice # Zero
    /\ Len(result) = 1
    /\ \E j \in Indices :
          /\ j < Encode(result[1], 1)
          /\ old_amplitudes[j] # Zero

\* C10: a gate call that ends in an error leaves amplitudes and n_qubits as
\* they were, and amplitudes still has 2^n_qubits entries.
C10_FailedCallNoEffect ==
    [][outcome' # "ok" =>
          /\ amplitudes' = amplitudes
          /\ n_qubits' = n_qubits
          /\ DOMAIN amplitudes' = 0..(Pow2(n_qubits') - 1)]_vars

\* controlled_not with the boundary index as target failed with IndexError
\* after its first stores, on a vector that is not a basis state
C10_Witness ==
    /\ call.op = "controlled_not"
    /\ outcome = "IndexError"
    /\ Arg(2) = n_qubits
    /\ Arg(1) > 0
    /\ Cardinality(Support(amplitudes)) > 1
    /\ amplitudes = old_amplitudes

====
